---- MODULE Spec2Model ----
(***************************************************************************)
(* A model of the vendored DSSIM core (vendor/dssim-core/src/dssim.rs and  *)
(* tolab.rs): the comparison context, create_image_rgb / create_image_rgba *)
(* / create_image with the fork-joined pyramid builder                     *)
(* make_scales_recursive, and compare with its per-scale tasks.            *)
(*                                                                         *)
(* Numbers.  f32/f64 values are modelled in fixed point, every operation   *)
(* rounding down (the stand-in for the rounding of a float operation):     *)
(*   - plane values (pixels, mu): units of 1/PixOne;                       *)
(*   - products of two plane values (img_sq_blur, img1_img2_blur, c1, c2): *)
(*     units of 1/PixOne^2;                                                *)
(*   - SSIM values, averages and scores: units of 1/SsimOne = 2^-FracBits; *)
(*   - weights: thousandths (DEFAULT_WEIGHTS 0.028 is 28).                 *)
(* A colour pixel is a tuple of components, an L*a*b* value the 3-tuple    *)
(* <<l, a, b>>; a gray plane value is a number, wrapped into a 1-tuple     *)
(* where the comparison treats both kinds alike.                           *)
(***************************************************************************)
EXTENDS Integers, Sequences, FiniteSets, TLC

VARIABLES
    ctx,        \* the Dssim context: scale_weights, save_maps_scales
    images,     \* per slot, the DssimImage the caller holds there, if any
    bpc,        \* the create call: "idle", "running", "done", "panicked"
    breq,       \* the request of the create call
    converted,  \* the create call has run to_rgblu / to_rgbaplu
    frames,     \* the activations of make_scales_recursive, outermost first
    scales,     \* the vector make_scales_recursive pushes to
    bret,       \* the create call's return value
    cmp         \* the compare call

vars == <<ctx, images, bpc, breq, converted, frames, scales, bret, cmp>>

PixOne == 100
FracBits == 10
SsimOne == 2 ^ FracBits

Min(a, b) == IF a < b THEN a ELSE b
Max(a, b) == IF a > b THEN a ELSE b
Abs(a) == IF a < 0 THEN 0 - a ELSE a

RECURSIVE SumSeq(_)
SumSeq(s) == IF s = <<>> THEN 0 ELSE Head(s) + SumSeq(Tail(s))

Reverse(s) == [i \in 1..Len(s) |-> s[Len(s) + 1 - i]]

\* Largest r in lo..hi with r^k <= n (lo^k <= n assumed): cbrt and sqrt.
RECURSIVE RootSearch(_, _, _, _)
RootSearch(n, k, lo, hi) ==
    IF lo >= hi THEN lo
    ELSE LET mid == (lo + hi + 1) \div 2
         IN IF mid ^ k <= n THEN RootSearch(n, k, mid, hi)
            ELSE RootSearch(n, k, lo, mid - 1)

\* f.cbrt() of a plane value.
Cbrt(f) == RootSearch(f * PixOne * PixOne, 3, 0, 2 * PixOne)

\* a.sqrt() of an SSIM-scale value.
Sqrt(a) == RootSearch(a * SsimOne, 2, 0, 4 * SsimOne)

\* floor(n * 2^bits / d) for d > 0, by long division, never forming n * 2^bits.
RECURSIVE LongDiv(_, _, _)
LongDiv(n, d, bits) ==
    IF bits = 0 THEN n \div d
    ELSE LET q == n \div d
             r == n % d
         IN q * (2 ^ bits) + LongDiv(2 * r, d, bits - 1)

(***************************************************************************)
(* Images: Img<Container> of the imgref crate, a buffer with width, height *)
(* and stride.  kind is the pixel type the ToLABBitmap impl dispatches on. *)
(***************************************************************************)
Img(kind, buf, width, height, stride) ==
    [kind |-> kind, buf |-> buf, width |-> width, height |-> height, stride |-> stride]

\* img.rows().nth(y)[x], 1-based.
\* Pixel (x, y) read as if the rows were packed, whatever the stride.
PixelAtPacked(img, x, y) == img.buf[(y - 1) * img.width + x]

\* Pixel (x, y), 1-based, of the visible region: entry x of row y, rows being
\* stride entries apart.
PixelAt(img, x, y) == img.buf[(y - 1) * img.stride + x]

\* Component-wise arithmetic of pixel tuples (ops::Mul, ops::Sub of f32 and LAB).
TMul(p, q) == [i \in 1..Len(p) |-> p[i] * q[i]]
TSub(p, q) == [i \in 1..Len(p) |-> p[i] - q[i]]
\* f32::from(L): the value itself for f32, the mean of l, a, b for LAB.
TAvg(p) == SumSeq(p) \div Len(p)

(***************************************************************************)
(* Ingestion of 8-bit pixels (to_rgblu, to_rgbaplu) and the conversion to  *)
(* L*a*b* planes (tolab.rs).                                               *)
(***************************************************************************)
D65x == 9505
D65z == 10890

\* An 8-bit sRGB component to linear light: the gamma curve, here v^2.
Linear8(v) == (v * v * PixOne) \div (255 * 255)

\* [RGB<u8>]::to_rgblu(): each component linearised.
ToRGBLU(bitmap) ==
    [i \in 1..Len(bitmap) |->
        <<Linear8(bitmap[i][1]), Linear8(bitmap[i][2]), Linear8(bitmap[i][3])>>]

\* [RGBA<u8>]::to_rgbaplu(): linearised, premultiplied by alpha, alpha last.
ToRGBAPLU(bitmap) ==
    [i \in 1..Len(bitmap) |->
        LET a == bitmap[i][4]
        IN <<(Linear8(bitmap[i][1]) * a) \div 255, (Linear8(bitmap[i][2]) * a) \div 255,
             (Linear8(bitmap[i][3]) * a) \div 255, (a * PixOne) \div 255>>]

\* RGBAPLU::to_rgb(n): the premultiplied colour; n is not used.
ToRGB(px, n) == <<px[1], px[2], px[3]>>

\* fma_matrix over the matrix row <<rx, gx, bx>> (ten-thousandths), divided by
\* the white point d (ten-thousandths).
FmaMatrix(px, rx, gx, bx, d) == (px[1] * rx + px[2] * gx + px[3] * bx) \div d

\* The cube-root / linear-segment nonlinearity, breakpoint epsilon = 216/24389,
\* slope k = 24389/(27*116).
LabF(f) ==
    IF f * 24389 > 216 * PixOne THEN Cbrt(f) - ((16 * PixOne) \div 116)
    ELSE (24389 * f) \div (27 * 116)

\* RGBLU::to_lab.
PixelToLab(px) ==
    LET X == LabF(FmaMatrix(px, 4124, 3576, 1805, D65x))
        Y == LabF(FmaMatrix(px, 2126, 7152, 722, 10000))
        Z == LabF(FmaMatrix(px, 193, 1192, 9505, D65z))
    IN <<(Y * 105) \div 100,
         (500 * (X - Y)) \div 220 + (862 * PixOne) \div 2200,
         (200 * (Y - Z)) \div 220 + (1079 * PixOne) \div 2200>>

\* GBitmap::to_lab for one gray value.
GrayToLab(fy) == (LabF(fy) * 116) \div 100

RECURSIVE Xor(_, _)
Xor(a, b) ==
    IF a = 0 THEN b
    ELSE IF b = 0 THEN a
    ELSE ((a + b) % 2) + 2 * Xor(a \div 2, b \div 2)

LabOfRGBA(px, n) == PixelToLab(ToRGB(px, n))
LabOfRGB(px, n) == PixelToLab(px)
LabOfGray(px, n) == <<GrayToLab(px)>>
LabOfCustom(px, n) == px

\* The per-pixel callback rgb_to_lab is given, by pixel type.
LabOf(kind, px, n) ==
    CASE kind = "rgba" -> LabOfRGBA(px, n)
      [] kind = "rgb" -> LabOfRGB(px, n)
      [] kind = "gray" -> LabOfGray(px, n)
      [] OTHER -> LabOfCustom(px, n)

\* The planes of an image: plane k holds component k of the callback's value
\* for every pixel of the visible width x height region, row by row,
\* stride = width.
RgbToLab(img, planes) ==
    [k \in 1..planes |->
        Img("gray",
            [i \in 1..(img.width * img.height) |->
                LET x == (i - 1) % img.width
                    y == (i - 1) \div img.width
                IN LabOf(img.kind, PixelAt(img, x + 1, y + 1), Xor(x + 11, y + 11))[k]],
            img.width, img.height, img.width)]

\* ToLABBitmap::to_lab by pixel type: 3 planes for colour, 1 for gray; a caller's
\* own implementation ("custom") returns as many planes as its pixels have
\* components.
ToLab(img) ==
    CASE img.kind \in {"rgba", "rgb"} -> RgbToLab(img, 3)
      [] img.kind = "gray" -> RgbToLab(img, 1)
      [] OTHER -> RgbToLab(img, Len(img.buf[1]))

(***************************************************************************)
(* The supplied primitives: box blur and 2x downsampling.                  *)
(***************************************************************************)
Clamp(i, n) == IF i < 1 THEN 1 ELSE IF i > n THEN n ELSE i

\* The edge-clamped 3x3 moving average of a width x height plane.
Blur(buf, width, height) ==
    [i \in 1..(width * height) |->
        LET x == ((i - 1) % width) + 1
            y == ((i - 1) \div width) + 1
            at(xx, yy) == buf[(Clamp(yy, height) - 1) * width + Clamp(xx, width)]
            row(yy) == at(x - 1, yy) + at(x, yy) + at(x + 1, yy)
        IN (row(y - 1) + row(y) + row(y + 1)) \div 9]

\* The smallest width and height that can still be halved.
DownsampleMin == 2

\* Option<T>.
None == [some |-> FALSE]
Some(v) == [some |-> TRUE, v |-> v]

\* Average4: the mean of four pixels, component by component.
Average4(kind, a, b, c, d) ==
    IF kind = "gray" THEN (a + b + c + d) \div 4
    ELSE [k \in 1..Len(a) |-> (a[k] + b[k] + c[k] + d[k]) \div 4]

\* Downsample::downsample: None when the image is too small, else the image at
\* half the width and height, every pixel the mean of a 2x2 block.
Downsample(img) ==
    IF img.width < DownsampleMin \/ img.height < DownsampleMin THEN None
    ELSE LET hw == img.width \div 2
             hh == img.height \div 2
         IN Some(Img(img.kind,
                [i \in 1..(hw * hh) |->
                    LET x == 2 * ((i - 1) % hw) + 1
                        y == 2 * ((i - 1) \div hw) + 1
                    IN Average4(img.kind, PixelAt(img, x, y), PixelAt(img, x + 1, y),
                                PixelAt(img, x, y + 1), PixelAt(img, x + 1, y + 1))],
                hw, hh, hw))

(***************************************************************************)
(* Channel records and their preprocessing.                                *)
(***************************************************************************)
\* DssimChan::new
DssimChanNew(bitmap, is_chroma) ==
    [width |-> bitmap.width, height |-> bitmap.height, mu |-> <<>>,
     img |-> bitmap, img_sq_blur |-> <<>>, is_chroma |-> is_chroma]

\* The visible pixels of a plane, row by row (img.pixels()).
Pixels(img) ==
    [i \in 1..(img.width * img.height) |->
        PixelAt(img, ((i - 1) % img.width) + 1, ((i - 1) \div img.width) + 1)]

\* DssimChan::preprocess: a chroma plane is first blurred in place; mu is the
\* blur of the plane, img_sq_blur the blur of its squares.
Preprocess(ch) ==
    LET img == IF ch.is_chroma
               THEN [ch.img EXCEPT !.buf = Blur(Pixels(ch.img), ch.width, ch.height),
                                   !.stride = ch.width]
               ELSE ch.img
        px == Pixels(img)
    IN [ch EXCEPT !.img = img,
                  !.mu = Blur(px, ch.width, ch.height),
                  !.img_sq_blur = Blur([i \in 1..Len(px) |-> px[i] * px[i]],
                                       ch.width, ch.height)]

\* One level of the pyramid as the conversion task builds it: to_lab, then each
\* plane n (0-based) preprocessed, chroma when n > 0.
ConvertLevel(image) ==
    LET lab == ToLab(image)
    IN [chan |-> [n \in 1..Len(lab) |-> Preprocess(DssimChanNew(lab[n], n > 1))]]

(***************************************************************************)
(* The comparison of one scale.  A call that panics yields Panicked, one   *)
(* that returns v yields Ok(v).                                            *)
(***************************************************************************)
Panicked == [ok |-> FALSE]
Ok(v) == [ok |-> TRUE, v |-> v]

\* c1 = 0.01 * 0.01 and c2 = 0.03 * 0.03, in units of 1/PixOne^2.
c1 == (PixOne \div 100) * (PixOne \div 100)
c2 == ((3 * PixOne) \div 100) * ((3 * PixOne) \div 100)

\* img1_img2_blur of two channels: the blur of the products of the two retained
\* planes, sized after the modified plane.  Slicing a row of the original to the
\* modified width panics when the original is narrower; when the original has
\* fewer rows the product buffer is shorter than width * height, and either the
\* blur of it or compare_scale's assertion on the heights panics.
Img1Img2BlurChan(original, modified) ==
    LET width == modified.img.width
        height == modified.img.height
        rows == Min(original.img.height, height)
    IN IF rows >= 1 /\ original.img.width < width THEN Panicked
       ELSE IF rows < height THEN Panicked
       ELSE Ok(Blur([i \in 1..(width * height) |->
                        LET x == ((i - 1) % width) + 1
                            y == ((i - 1) \div width) + 1
                        IN PixelAt(original.img, x, y) * PixelAt(modified.img, x, y)],
                    width, height))

\* The channel record with its retained plane blurred in place.
Img1Img2BlurSelfInPlace(original) ==
    [original EXCEPT !.img.buf = Blur(Pixels(original.img), original.img.width,
                                      original.img.height)]

\* The channel record img1_img2_blur borrowed as &self, after the call: the
\* products go to a buffer of the call's own, and only that buffer is blurred.
Img1Img2BlurSelf(original) == original

Zip3(l, a, b) ==
    [i \in 1..Min(Len(l), Min(Len(a), Len(b))) |-> <<l[i], a[i], b[i]>>]

\* img1_img2_blur of two channel lists: channel by channel over the pairs the
\* two lists have in common, then fused; blurred[0], [1], [2] must exist.
Img1Img2BlurLab(original, modified) ==
    LET pairs == Min(Len(original), Len(modified))
        blurred == [k \in 1..pairs |-> Img1Img2BlurChan(original[k], modified[k])]
    IN IF \E k \in 1..pairs : ~blurred[k].ok THEN Panicked
       ELSE IF pairs < 3 THEN Panicked
       ELSE Ok(Zip3(blurred[1].v, blurred[2].v, blurred[3].v))

\* lab_chan: the three channel records fused into one record of LAB values.
LabChan(scale) ==
    IF Len(scale.chan) < 3 THEN Panicked
    ELSE LET l == scale.chan[1]
             a == scale.chan[2]
             b == scale.chan[3]
         IN IF l.width # a.width \/ b.width # a.width THEN Panicked
            ELSE Ok([img_sq_blur |-> Zip3(l.img_sq_blur, a.img_sq_blur, b.img_sq_blur),
                     mu |-> Zip3(l.mu, a.mu, b.mu),
                     width |-> l.width, height |-> l.height])

\* A sequence of f32 as a sequence of 1-tuples, and a gray channel record so.
Wrap(s) == [i \in 1..Len(s) |-> <<s[i]>>]
GrayChan(ch) ==
    [img_sq_blur |-> Wrap(ch.img_sq_blur), mu |-> Wrap(ch.mu),
     width |-> ch.width, height |-> ch.height]

\* SsimPixel with c1 left out of the numerator.
SsimPixelNoC1(img1_img2_blur, mu1, mu2, img1_sq_blur, img2_sq_blur) ==
    LET mu1mu1 == TMul(mu1, mu1)
        mu1mu2 == TMul(mu1, mu2)
        mu2mu2 == TMul(mu2, mu2)
        sigma1_sq == TAvg(TSub(img1_sq_blur, mu1mu1))
        sigma2_sq == TAvg(TSub(img2_sq_blur, mu2mu2))
        sigma12 == TAvg(TSub(img1_img2_blur, mu1mu2))
    IN LongDiv((2 * TAvg(mu1mu2)) * (2 * sigma12 + c2),
               (TAvg(mu1mu1) + TAvg(mu2mu2) + c1) * (sigma1_sq + sigma2_sq + c2), FracBits)

\* The SSIM of one pixel.
SsimPixel(img1_img2_blur, mu1, mu2, img1_sq_blur, img2_sq_blur) ==
    LET mu1mu1 == TMul(mu1, mu1)
        mu1mu2 == TMul(mu1, mu2)
        mu2mu2 == TMul(mu2, mu2)
        mu1_sq == TAvg(mu1mu1)
        mu2_sq == TAvg(mu2mu2)
        mu1_mu2 == TAvg(mu1mu2)
        sigma1_sq == TAvg(TSub(img1_sq_blur, mu1mu1))
        sigma2_sq == TAvg(TSub(img2_sq_blur, mu2mu2))
        sigma12 == TAvg(TSub(img1_img2_blur, mu1mu2))
    IN LongDiv((2 * mu1_mu2 + c1) * (2 * sigma12 + c2),
               (mu1_sq + mu2_sq + c1) * (sigma1_sq + sigma2_sq + c2), FracBits)

\* compare_scale without its assertions: the planes are zipped to the shortest
\* and the map takes the dimensions of the smaller image.
CompareScaleUnchecked(original, modified, img1_img2_blur) ==
    LET len == Min(Min(Len(original.mu), Len(modified.mu)),
                   Min(Min(Len(original.img_sq_blur), Len(modified.img_sq_blur)),
                       Len(img1_img2_blur)))
        small == IF Len(modified.mu) <= Len(original.mu) THEN modified ELSE original
    IN IF len < small.width * small.height THEN Panicked
       ELSE Ok(Img("gray",
                   [i \in 1..(small.width * small.height) |->
                       SsimPixel(img1_img2_blur[i], original.mu[i], modified.mu[i],
                                 original.img_sq_blur[i], modified.img_sq_blur[i])],
                   small.width, small.height, small.width))

\* compare_scale: asserts equal widths and heights, zips the planes (zip_eq
\* panics on unequal lengths) and returns the plane of per-pixel SSIM values.
CompareScale(original, modified, img1_img2_blur) ==
    IF original.width # modified.width \/ original.height # modified.height
    THEN Panicked
    ELSE IF Len(original.mu) # Len(modified.mu)
            \/ Len(original.img_sq_blur) # Len(modified.img_sq_blur)
            \/ Len(img1_img2_blur) # Len(original.mu)
            \/ Len(img1_img2_blur) # Len(original.img_sq_blur)
    THEN Panicked
    ELSE Ok(Img("gray",
                [i \in 1..Len(img1_img2_blur) |->
                    SsimPixel(img1_img2_blur[i], original.mu[i], modified.mu[i],
                              original.img_sq_blur[i], modified.img_sq_blur[i])],
                original.width, original.height, original.width))

\* avg.powf(0.5^n): the square root taken n times.
RECURSIVE PowHalf(_, _)
PowHalf(a, n) == IF n = 0 THEN a ELSE Sqrt(PowHalf(a, n - 1))

\* The score of scale n (0-based) from its SSIM map: one minus the mean absolute
\* deviation from the floored, power-adjusted mean.
Score(ssim_map, n) ==
    LET px == Pixels(ssim_map)
        len == ssim_map.width * ssim_map.height
        avg == PowHalf(Max(SumSeq(px) \div len, 0), n)
    IN SsimOne - (SumSeq([i \in 1..Len(px) |-> Abs(avg - px[i])]) \div len)

\* The SSIM map of one scale, by the channel count of the original.
SsimMapOf(original_image_scale, modified_image_scale) ==
    IF Len(original_image_scale.chan) = 0 THEN Panicked
    ELSE IF Len(original_image_scale.chan) = 3
    THEN LET original_lab == LabChan(original_image_scale)
             img1_img2_blur == Img1Img2BlurLab(original_image_scale.chan,
                                               modified_image_scale.chan)
             modified_lab == LabChan(modified_image_scale)
         IN IF ~original_lab.ok \/ ~img1_img2_blur.ok \/ ~modified_lab.ok
            THEN Panicked
            ELSE CompareScale(original_lab.v, modified_lab.v, img1_img2_blur.v)
    ELSE IF Len(original_image_scale.chan) = 1
    THEN IF Len(modified_image_scale.chan) = 0 THEN Panicked
         ELSE LET img1_img2_blur == Img1Img2BlurChan(original_image_scale.chan[1],
                                                     modified_image_scale.chan[1])
              IN IF ~img1_img2_blur.ok THEN Panicked
                 ELSE CompareScale(GrayChan(original_image_scale.chan[1]),
                                   GrayChan(modified_image_scale.chan[1]),
                                   Wrap(img1_img2_blur.v))
    ELSE Panicked

\* KeepMap with the comparison made inclusive.
KeepMapInclusive(self, n) == self.save_maps_scales >= n

\* Whether the map of scale n (0-based) is kept.
KeepMap(self, n) == self.save_maps_scales > n

\* The closure compare maps over the zipped scales: (score, weight, map) of
\* scale n (0-based).
ScaleTask(self, n, weight, modified_image_scale, original_image_scale) ==
    LET ssim_map == SsimMapOf(original_image_scale, modified_image_scale)
    IN IF ~ssim_map.ok THEN Panicked
       ELSE LET score == Score(ssim_map.v, n)
            IN Ok([score |-> score, weight |-> weight,
                   map |-> IF KeepMap(self, n)
                           THEN Some([map |-> ssim_map.v, ssim |-> score])
                           ELSE None])

(***************************************************************************)
(* f64 results: a finite value v (units of 1/SsimOne), NaN, an infinity,   *)
(* or 1/EPSILON - 1 (finite, about 4.5e15, beyond the fixed-point range).  *)
(***************************************************************************)
Fin(v) == [k |-> "fin", v |-> v]
NaN == [k |-> "nan", v |-> 0]
Inf == [k |-> "inf", v |-> 0]
NegInf == [k |-> "-inf", v |-> 0]
RecipEpsilon == [k |-> "1/eps-1", v |-> 0]

\* ssim_sum / weight_sum.
WeightedSsim(ssim_sum, weight_sum) ==
    IF weight_sum = 0
    THEN IF ssim_sum = 0 THEN NaN ELSE IF ssim_sum > 0 THEN Inf ELSE NegInf
    ELSE IF weight_sum > 0 THEN Fin(ssim_sum \div weight_sum)
    ELSE Fin((0 - ssim_sum) \div (0 - weight_sum))

\* to_dssim without the max: 1 / ssim - 1.
to_dssim_unclamped(ssim) ==
    IF ssim.k = "nan" THEN NaN
    ELSE IF ssim.k \in {"inf", "-inf"} THEN Fin(0 - SsimOne)
    ELSE IF ssim.v = 0 THEN Inf
    ELSE Fin((SsimOne * SsimOne) \div ssim.v - SsimOne)

\* to_dssim: 1 / max(ssim, EPSILON) - 1; max returns EPSILON for NaN and for
\* every value below it.
to_dssim(ssim) ==
    IF ssim.k = "inf" THEN Fin(0 - SsimOne)
    ELSE IF ssim.k = "fin" /\ ssim.v > 0
    THEN Fin((SsimOne * SsimOne) \div ssim.v - SsimOne)
    ELSE RecipEpsilon

RECURSIVE SsimSum(_)
SsimSum(res) == IF res = <<>> THEN 0 ELSE Head(res).score * Head(res).weight + SsimSum(Tail(res))
\* The sum of every configured weight, consumed or not.
WeightSumAll(res) == SumSeq(ctx.scale_weights)

RECURSIVE WeightSum(_)
WeightSum(res) == IF res = <<>> THEN 0 ELSE Head(res).weight + WeightSum(Tail(res))
RECURSIVE SsimMaps(_)
SsimMaps(res) ==
    IF res = <<>> THEN <<>>
    ELSE (IF Head(res).map.some THEN <<Head(res).map.v>> ELSE <<>>) \o SsimMaps(Tail(res))

\* The loop over res and the return value of compare.
Aggregate(res) ==
    [dssim |-> to_dssim(WeightedSsim(SsimSum(res), WeightSum(res))),
     maps |-> SsimMaps(res)]

\* A zip over the two scale lists only, whatever the number of weights.
ZipLenOfImages(self, original_image, modified_image) ==
    Min(Len(modified_image.scale), Len(original_image.scale))

\* The number of items of the zip of the weights and the two scale lists.
ZipLen(self, original_image, modified_image) ==
    Min(Len(self.scale_weights), Min(Len(modified_image.scale), Len(original_image.scale)))

(***************************************************************************)
(* Same-thread execution (the build without the "threads" feature, where   *)
(* join runs its first closure and then its second, and a parallel         *)
(* iterator is a plain one).                                               *)
(***************************************************************************)
\* make_scales_recursive: the levels in the order they are pushed.
RECURSIVE MakeScalesSeq(_, _)
MakeScalesSeq(scales_left, image) ==
    LET chan == ConvertLevel(image)
        down == IF scales_left > 0 THEN Downsample(image) ELSE None
        deeper == IF down.some THEN MakeScalesSeq(scales_left - 1, down.v) ELSE <<>>
    IN Append(deeper, chan)

\* create_image.
CreateImageSeq(self, src_img) ==
    Some([scale |-> Reverse(MakeScalesSeq(Len(self.scale_weights), src_img))])

\* compare: Panicked when the closure panics at some scale.
CompareSeq(self, original_image, modified_image) ==
    LET len == ZipLen(self, original_image, modified_image)
        res == [n \in 1..len |->
                   ScaleTask(self, n - 1, self.scale_weights[n],
                             modified_image.scale[n], original_image.scale[n])]
    IN IF \E n \in 1..len : ~res[n].ok THEN Panicked
       ELSE Ok(Aggregate([n \in 1..len |-> res[n].v]))

(***************************************************************************)
(* Inputs.                                                                 *)
(***************************************************************************)
MaxSide == 2
MaxSaveMaps == 1

\* The images the caller holds, as png_compare holds img1 and img2.
Slots == {"img1", "img2"}

DEFAULT_WEIGHTS == <<28, 197, 322, 298, 155>>

\* The weight sequences a caller passes to set_scales.
WeightChoices == {DEFAULT_WEIGHTS, <<>>, <<500>>, <<0, 0>>}

Palette == <<<<255, 255, 255>>, <<0, 0, 0>>, <<255, 0, 0>>, <<128, 128, 128>>>>

\* Pixel i of an 8-bit bitmap of pattern pat.
PatternPixel(pat, i) ==
    IF pat = 1 THEN Palette[((i - 1) % 4) + 1] ELSE Palette[(((i + 1) \div 2) % 4) + 1]

RgbBitmap(pat, n) == [i \in 1..n |-> PatternPixel(pat, i)]
RgbaBitmap(pat, n) == [i \in 1..n |-> PatternPixel(pat, i) \o <<255>>]

\* Linear-light gray values and two-component pixels of a caller's own type.
GrayBuf(n) == [i \in 1..n |-> (i * 37) % (PixOne + 1)]
CustomBuf(n) == [i \in 1..n |-> <<(i * 37) % (PixOne + 1), (i * 53) % (PixOne + 1)>>]

Req(op, pat, n, width, height) ==
    [op |-> op, pat |-> pat, n |-> n, width |-> width, height |-> height]

Full == MaxSide * MaxSide

\* Calls of create_image_rgb / create_image_rgba: a bitmap of n pixels with a
\* width and a height, matching or not.
BitmapRequests ==
    {Req("rgb", 1, Full, MaxSide, MaxSide), Req("rgb", 2, Full, MaxSide, MaxSide),
     Req("rgb", 1, MaxSide, MaxSide, 1), Req("rgb", 1, MaxSide, 1, MaxSide),
     Req("rgb", 1, Full + 1, MaxSide, MaxSide), Req("rgb", 1, Full - 1, MaxSide, MaxSide),
     Req("rgba", 1, Full, MaxSide, MaxSide),
     Req("rgba", 1, Full + 1, MaxSide, MaxSide), Req("rgba", 1, Full - 1, MaxSide, MaxSide)}

\* Calls of create_image on an image the caller holds.
\* A padding entry of a strided buffer: transparent black, or a value no pixel
\* holds, standing for a non-finite one.
Poison == 0 - PixOne
PadChoices == {1, 2}
PadPixel(pad) == IF pad = 1 THEN <<0, 0, 0, 0>> ELSE <<Poison, Poison, Poison, Poison>>

\* The buffer of ImgVec::new_stride(buf, width, height, width + 1): the visible
\* RGBAPLU pixels of pattern 1, one padding entry after each row but the last.
SubLen(width, height) == (width + 1) * height - 1
SubBuf(pad, width, height) ==
    LET visible == ToRGBAPLU(RgbaBitmap(1, width * height))
    IN [i \in 1..SubLen(width, height) |->
           LET x == (i - 1) % (width + 1)
               y == (i - 1) \div (width + 1)
           IN IF x < width THEN visible[y * width + x + 1] ELSE PadPixel(pad)]

\* The strided sources a caller passes, their padding poisoned: req.pat is the
\* padding choice.
SubRequests ==
    {Req("sub", 2, SubLen(MaxSide, MaxSide), MaxSide, MaxSide),
     Req("sub", 2, SubLen(1, MaxSide), 1, MaxSide)}

ImageRequests ==
    {Req("gray", 1, Full, MaxSide, MaxSide), Req("custom", 1, Full, MaxSide, MaxSide)}
        \cup SubRequests

\* The image a request hands to create_image.
SourceImage(req) ==
    CASE req.op = "rgb" ->
           Img("rgb", ToRGBLU(RgbBitmap(req.pat, req.n)), req.width, req.height, req.width)
      [] req.op = "rgba" ->
           Img("rgba", ToRGBAPLU(RgbaBitmap(req.pat, req.n)), req.width, req.height, req.width)
      [] req.op = "gray" -> Img("gray", GrayBuf(req.n), req.width, req.height, req.width)
      [] req.op = "sub" ->
           Img("rgba", SubBuf(req.pat, req.width, req.height), req.width, req.height,
               req.width + 1)
      [] OTHER -> Img("custom", CustomBuf(req.n), req.width, req.height, req.width)

NoReq == Req("none", 0, 0, 0, 0)

(***************************************************************************)
(* Initial state and the frames of the pyramid builder.                    *)
(***************************************************************************)

\* An activation of make_scales_recursive: conv is the first closure of join
\* ("start", "lab" once to_lab has returned and the handle is dropped, "done"),
\* down the second ("start", "rec" while the recursive call runs, "done");
\* handles are the tasks that hold a MaybeArc handle to image; owned tells
\* MaybeArc::Owned from MaybeArc::Borrowed, freed that the image is released.
Frame(scales_left, image, owned) ==
    [scales_left |-> scales_left, image |-> image, conv |-> "start", lab |-> <<>>,
     chan |-> <<>>, down |-> "start", handles |-> {"conv", "down"}, pushed |-> FALSE,
     owned |-> owned, freed |-> FALSE]

\* A drop that releases the image whoever else holds it, as if the two tasks
\* shared one handle.
DropHandleAll(handles, task) == {}

\* drop(image) in a task: that task's handle is gone.
DropHandle(handles, task) == handles \ {task}

\* The activation after a task has dropped its handle: an Owned image (an Arc)
\* is freed when no handle to it is left, a Borrowed one never.
AfterDrop(frame, task) ==
    LET left == DropHandle(frame.handles, task)
    IN [frame EXCEPT !.handles = left, !.freed = frame.owned /\ left = {}]

IdleCmp == [pc |-> "idle", o |-> "img1", m |-> "img1", res |-> <<>>, ret |-> None]

Idle == bpc = "idle" /\ cmp.pc = "idle"

\* Dssim::new
Init ==
    /\ ctx = [scale_weights |-> DEFAULT_WEIGHTS, save_maps_scales |-> 0]
    /\ images = [s \in Slots |-> None]
    /\ bpc = "idle"
    /\ breq = NoReq
    /\ converted = FALSE
    /\ frames = <<>>
    /\ scales = <<>>
    /\ bret = None
    /\ cmp = IdleCmp

(***************************************************************************)
(* The context's setters.                                                  *)
(***************************************************************************)
\* set_scales
SetScales(scales_arg) ==
    /\ Idle
    /\ ctx' = [ctx EXCEPT !.scale_weights = scales_arg]
    /\ UNCHANGED <<images, bpc, breq, converted, frames, scales, bret, cmp>>

\* set_save_ssim_maps
SetSaveSsimMaps(num_scales) ==
    /\ Idle
    /\ ctx' = [ctx EXCEPT !.save_maps_scales = num_scales]
    /\ UNCHANGED <<images, bpc, breq, converted, frames, scales, bret, cmp>>

(***************************************************************************)
(* create_image_rgb, create_image_rgba, create_image.                      *)
(***************************************************************************)
\* Rejects with the comparison turned around.
RejectsShorter(width, height, len) == width * height > len

\* The guard of create_image_rgb and create_image_rgba.
Rejects(width, height, len) == width * height < len

\* create_image up to the first call of make_scales_recursive.
EnterCreateImage(req) ==
    /\ bpc' = "running"
    /\ breq' = req
    /\ frames' = <<Frame(Len(ctx.scale_weights), SourceImage(req), FALSE)>>
    /\ scales' = <<>>
    /\ bret' = None

\* create_image_rgb / create_image_rgba on a bitmap of req.n pixels: None when
\* the guard rejects; else the pixels are converted and create_image runs on
\* ImgVec::new(converted, width, height).  A buffer shorter than width * height
\* leaves the image without its last row complete: the call panics after the
\* conversion instead of returning.
CreateImageBitmap(req) ==
    /\ Idle
    /\ \E s \in Slots : ~images[s].some
    /\ IF Rejects(req.width, req.height, req.n)
       THEN /\ bpc' = "done"
            /\ breq' = req
            /\ bret' = None
            /\ converted' = FALSE
            /\ UNCHANGED <<frames, scales>>
       ELSE IF req.n < req.width * req.height
       THEN /\ bpc' = "panicked"
            /\ breq' = req
            /\ bret' = None
            /\ converted' = TRUE
            /\ UNCHANGED <<frames, scales>>
       ELSE /\ converted' = TRUE
            /\ EnterCreateImage(req)
    /\ UNCHANGED <<ctx, images, cmp>>

CreateImageRgba(req) == req.op = "rgba" /\ CreateImageBitmap(req)

CreateImageRgb(req) == req.op = "rgb" /\ CreateImageBitmap(req)

\* create_image on an image of the caller's.
CreateImage(req) ==
    /\ Idle
    /\ \E s \in Slots : ~images[s].some
    /\ converted' = FALSE
    /\ EnterCreateImage(req)
    /\ UNCHANGED <<ctx, images, cmp>>

\* The first closure of join, first half: to_lab, then drop(image).
ToLabStep(i) ==
    /\ bpc = "running"
    /\ frames[i].conv = "start"
    /\ LET lab == ToLab(frames[i].image)
       IN frames' = [frames EXCEPT ![i] = [AfterDrop(@, "conv") EXCEPT
                                               !.lab = lab,
                                               !.chan = [k \in 1..Len(lab) |-> None],
                                               !.conv = "lab"]]
    /\ UNCHANGED <<ctx, images, bpc, breq, converted, scales, bret, cmp>>

\* The first closure of join, second half: one item of the parallel iterator
\* over the planes; the closure returns when every plane is collected.
PreprocessStep(i, n) ==
    /\ bpc = "running"
    /\ frames[i].conv = "lab"
    /\ n \in 1..Len(frames[i].lab)
    /\ ~frames[i].chan[n].some
    /\ LET ch == Preprocess(DssimChanNew(frames[i].lab[n], n > 1))
           all == \A k \in 1..Len(frames[i].lab) : k = n \/ frames[i].chan[k].some
       IN frames' = [frames EXCEPT ![i].chan[n] = Some(ch),
                                   ![i].conv = IF all THEN "done" ELSE "lab"]
    /\ UNCHANGED <<ctx, images, bpc, breq, converted, scales, bret, cmp>>

\* The second closure of join: with scales left, downsample, drop(image), and
\* recurse on the downsampled image if there is one.
DownsampleStep(i) ==
    /\ bpc = "running"
    /\ frames[i].down = "start"
    /\ LET down == IF frames[i].scales_left > 0 THEN Downsample(frames[i].image) ELSE None
           this == [AfterDrop(frames[i], "down") EXCEPT
                        !.down = IF down.some THEN "rec" ELSE "done"]
       IN frames' = IF down.some
                    THEN Append([frames EXCEPT ![i] = this],
                                Frame(frames[i].scales_left - 1, down.v, TRUE))
                    ELSE [frames EXCEPT ![i] = this]
    /\ UNCHANGED <<ctx, images, bpc, breq, converted, scales, bret, cmp>>

\* JoinReady without waiting for the second closure.
JoinReadyConvOnly(i) == frames[i].conv = "done"

\* join has returned in activation i: both closures are done, the second one
\* with its recursive call.
JoinReady(i) ==
    /\ frames[i].conv = "done"
    /\ \/ frames[i].down = "done"
       \/ frames[i].down = "rec" /\ frames[i + 1].pushed

\* scales.push(chan) after join.
JoinPush(i) ==
    /\ bpc = "running"
    /\ ~frames[i].pushed
    /\ JoinReady(i)
    /\ scales' = Append(scales,
                        [chan |-> [k \in 1..Len(frames[i].chan) |-> frames[i].chan[k].v]])
    /\ frames' = [frames EXCEPT ![i].pushed = TRUE, ![i].down = "done"]
    /\ UNCHANGED <<ctx, images, bpc, breq, converted, bret, cmp>>

\* The levels left in the order they were pushed.
StoredOrderAsPushed(pushed) == pushed

\* scale.reverse()
StoredOrder(pushed) == Reverse(pushed)

\* create_image after make_scales_recursive has returned.
CreateFinish ==
    /\ bpc = "running"
    /\ frames[1].pushed
    /\ bret' = Some([scale |-> StoredOrder(scales)])
    /\ bpc' = "done"
    /\ frames' = <<>>
    /\ UNCHANGED <<ctx, images, breq, converted, scales, cmp>>

\* The caller takes the return value (or catches the panic).
CreateReturn ==
    /\ bpc \in {"done", "panicked"}
    /\ IF bret.some
       THEN images' = [images EXCEPT ![IF images["img1"].some THEN "img2" ELSE "img1"] = bret]
       ELSE UNCHANGED images
    /\ bpc' = "idle"
    /\ breq' = NoReq
    /\ converted' = FALSE
    /\ scales' = <<>>
    /\ bret' = None
    /\ UNCHANGED <<ctx, frames, cmp>>

(***************************************************************************)
(* compare.                                                                *)
(***************************************************************************)
\* compare is called: the zip of the weights and the two scale lists is set up.
CompareStart(o, m) ==
    /\ Idle
    /\ images[o].some
    /\ images[m].some
    /\ cmp' = [pc |-> "running", o |-> o, m |-> m,
               res |-> [n \in 1..ZipLen(ctx, images[o].v, images[m].v) |-> None],
               ret |-> None]
    /\ UNCHANGED <<ctx, images, bpc, breq, converted, frames, scales, bret>>

\* One item of the parallel iterator: the closure on scale n (1-based here).
CompareScaleStep(n) ==
    /\ cmp.pc = "running"
    /\ n \in 1..Len(cmp.res)
    /\ ~cmp.res[n].some
    /\ cmp' = [cmp EXCEPT !.res[n] =
                  Some(ScaleTask(ctx, n - 1, ctx.scale_weights[n],
                                 images[cmp.m].v.scale[n], images[cmp.o].v.scale[n]))]
    /\ images' = [images EXCEPT ![cmp.o].v.scale[n].chan =
                     [k \in 1..Len(@) |-> Img1Img2BlurSelf(@[k])]]
    /\ UNCHANGED <<ctx, bpc, breq, converted, frames, scales, bret>>

\* collect() has every item: a panic of an item is propagated, else the loop
\* over res and to_dssim give the return value.
CompareJoin ==
    /\ cmp.pc = "running"
    /\ \A n \in 1..Len(cmp.res) : cmp.res[n].some
    /\ IF \E n \in 1..Len(cmp.res) : ~cmp.res[n].v.ok
       THEN cmp' = [cmp EXCEPT !.pc = "panicked"]
       ELSE cmp' = [cmp EXCEPT !.pc = "done",
                               !.ret = Some(Aggregate([n \in 1..Len(cmp.res) |->
                                                           cmp.res[n].v.v]))]
    /\ UNCHANGED <<ctx, images, bpc, breq, converted, frames, scales, bret>>

\* The caller takes the return value (or catches the panic).
CompareReturn ==
    /\ cmp.pc \in {"done", "panicked"}
    /\ cmp' = IdleCmp
    /\ UNCHANGED <<ctx, images, bpc, breq, converted, frames, scales, bret>>

Next ==
    \/ \E w \in WeightChoices : SetScales(w)
    \/ \E k \in 0..MaxSaveMaps : SetSaveSsimMaps(k)
    \/ \E req \in BitmapRequests : CreateImageRgb(req)
    \/ \E req \in BitmapRequests : CreateImageRgba(req)
    \/ \E req \in ImageRequests : CreateImage(req)
    \/ \E i \in 1..Len(frames) : ToLabStep(i)
    \/ \E i \in 1..Len(frames) : \E n \in 1..3 : PreprocessStep(i, n)
    \/ \E i \in 1..Len(frames) : DownsampleStep(i)
    \/ \E i \in 1..Len(frames) : JoinPush(i)
    \/ CreateFinish
    \/ CreateReturn
    \/ \E o \in Slots : \E m \in Slots : CompareStart(o, m)
    \/ \E n \in 1..Len(cmp.res) : CompareScaleStep(n)
    \/ CompareJoin
    \/ CompareReturn

Spec == Init /\ [][Next]_vars

(***************************************************************************)
(* Properties.                                                             *)
(***************************************************************************)
\* The requests whose buffer matches width * height.
ValidRequests == {req \in BitmapRequests \cup ImageRequests : req.n = req.width * req.height}

\* The compare call is over: it has returned or panicked.
CompareOver == cmp.pc \in {"done", "panicked"}

\* Both images of the compare call are what create_image returns, with the
\* context as it is, from one source whose to_lab gives 1 or 3 planes.
SameSourceSameContext ==
    \E req \in ValidRequests :
        /\ req.op # "custom"
        /\ images[cmp.o] = CreateImageSeq(ctx, SourceImage(req))
        /\ images[cmp.m] = CreateImageSeq(ctx, SourceImage(req))

\* compare has returned dissimilarity 0: every score, every pixel of every
\* retained map and the weighted SSIM are 1.
IdentityResult ==
    /\ cmp.pc = "done"
    /\ cmp.ret.v.dssim = Fin(0)
    /\ \A n \in 1..Len(cmp.res) :
          /\ cmp.res[n].v.v.score = SsimOne
          /\ LET map == SsimMapOf(images[cmp.o].v.scale[n], images[cmp.m].v.scale[n])
             IN map.ok /\ \A i \in 1..Len(map.v.buf) : map.v.buf[i] = SsimOne
    /\ \A j \in 1..Len(cmp.ret.v.maps) :
          \A i \in 1..Len(cmp.ret.v.maps[j].map.buf) : cmp.ret.v.maps[j].map.buf[i] = SsimOne
    /\ WeightedSsim(SsimSum([n \in 1..Len(cmp.res) |-> cmp.res[n].v.v]),
                    WeightSum([n \in 1..Len(cmp.res) |-> cmp.res[n].v.v])) = Fin(SsimOne)

\* The sum of the weights paired with a compared scale.
ConsumedWeightSum == SumSeq(SubSeq(ctx.scale_weights, 1, Len(cmp.res)))

\* C1 as stated: for every valid source image and every context, two images
\* created from it with that context compare to dissimilarity 0, with every
\* per-pixel SSIM, every score and the weighted SSIM equal to 1.
C1_IdentityAnyContext ==
    (CompareOver /\ SameSourceSameContext) => IdentityResult

\* C1 amended: the same, for every context in which the weights paired with
\* the compared scales have a non-zero sum.
C1_IdentityNonZeroWeights ==
    (CompareOver /\ SameSourceSameContext /\ ConsumedWeightSum # 0) => IdentityResult

C1_Witness ==
    /\ cmp.pc = "done"
    /\ cmp.o # cmp.m
    /\ SameSourceSameContext
    /\ Len(cmp.res) = 2
    /\ ConsumedWeightSum # 0
    /\ Len(images[cmp.o].v.scale[1].chan) = 3

\* A create_image_rgb / create_image_rgba call is in progress or over.
BitmapCall == bpc # "idle" /\ breq.op \in {"rgb", "rgba"}

\* The call has returned None without converting a pixel or building a level.
RejectedBeforeConversion ==
    /\ bpc = "done"
    /\ bret = None
    /\ ~converted
    /\ frames = <<>>
    /\ scales = <<>>

\* C2: create_image_rgb and create_image_rgba return None, with no conversion
\* and no pyramid built, whenever width * height is smaller than the number of
\* supplied pixels.
C2_LongBufferRejected ==
    (BitmapCall /\ breq.width * breq.height < breq.n) => RejectedBeforeConversion

C2_Witness ==
    /\ BitmapCall
    /\ breq.op = "rgba"
    /\ breq.width * breq.height < breq.n
    /\ bpc = "done"
    /\ bret = None

\* C3 as stated: every mismatch between the buffer length and width * height,
\* longer or shorter, is rejected with None before any colour conversion.
C3_EveryMismatchRejected ==
    (BitmapCall /\ breq.n # breq.width * breq.height) => RejectedBeforeConversion

\* The scales of the two images of the compare call, 1-based.
OScale(n) == images[cmp.o].v.scale[n]
MScale(n) == images[cmp.m].v.scale[n]

\* At compared scale n some channel record of the original differs in width or
\* in height from the modified image's record of the same channel.
DimsDiffer(n) ==
    \E k \in 1..Min(Len(OScale(n).chan), Len(MScale(n).chan)) :
        \/ OScale(n).chan[k].width # MScale(n).chan[k].width
        \/ OScale(n).chan[k].height # MScale(n).chan[k].height

\* C4: when the channel records of the two images differ in width or in height
\* at some compared scale, compare panics and never returns a score, and no
\* scale of differing dimensions ever yields an SSIM map.
C4_DimensionMismatchAborts ==
    cmp.pc # "idle" =>
        \A n \in 1..Len(cmp.res) :
            DimsDiffer(n) =>
                /\ cmp.pc # "done"
                /\ cmp.res[n].some => ~cmp.res[n].v.ok

C4_Witness ==
    /\ cmp.pc = "panicked"
    /\ \E n \in 1..Len(cmp.res) :
          /\ DimsDiffer(n)
          /\ OScale(n).chan[1].width > MScale(n).chan[1].width
          /\ Len(OScale(n).chan) = Len(MScale(n).chan)

\* At compared scale n an image holds a channel count other than 1 or 3, or the
\* two images hold different channel counts.
BadChannelCount(n) ==
    \/ Len(OScale(n).chan) \notin {1, 3}
    \/ Len(MScale(n).chan) \notin {1, 3}
    \/ Len(OScale(n).chan) # Len(MScale(n).chan)

\* C5 as stated: when at a compared scale either image holds a channel count
\* other than 1 or 3, or the two counts differ, compare panics instead of
\* returning a score, whichever image is the original.
C5_ChannelCountMismatchAborts ==
    (cmp.pc # "idle" /\ \E n \in 1..Len(cmp.res) : BadChannelCount(n)) => cmp.pc # "done"

\* The scores compare computed, in scale order.
Scores == [n \in 1..Len(cmp.res) |-> cmp.res[n].v.v.score]

\* C6: the dissimilarity compare returns is to_dssim of the sum of
\* score_i * weight_i over the compared scales divided by the sum of the
\* weights of those scales only, also when the pyramids hold fewer scales than
\* the context has weights.
C6_ConsumedWeightsOnly ==
    cmp.pc = "done" =>
        /\ Len(cmp.res) = Min(Len(ctx.scale_weights),
                              Min(Len(images[cmp.o].v.scale), Len(images[cmp.m].v.scale)))
        /\ cmp.ret.v.dssim =
              to_dssim(WeightedSsim(
                  SumSeq([n \in 1..Len(cmp.res) |-> Scores[n] * ctx.scale_weights[n]]),
                  SumSeq([n \in 1..Len(cmp.res) |-> ctx.scale_weights[n]])))

C6_Witness ==
    /\ cmp.pc = "done"
    /\ Len(cmp.res) = 2
    /\ Len(cmp.res) < Len(ctx.scale_weights)
    /\ cmp.ret.v.dssim.k = "fin"
    /\ cmp.ret.v.dssim.v > 0

\* The image downsampled i times, and the number of successive downsamplings
\* that succeed on it.
RECURSIVE DownN(_, _)
DownN(image, i) == IF i = 0 THEN image ELSE Downsample(DownN(image, i - 1)).v
RECURSIVE DownCount(_)
DownCount(image) ==
    IF Downsample(image).some THEN 1 + DownCount(Downsample(image).v) ELSE 0

\* C7: with N weights and a source on which d downsamplings succeed,
\* create_image returns min(N, d) + 1 levels, stored level i being the source
\* downsampled i times, converted and preprocessed; the levels were pushed
\* coarsest first and are stored in the inverse of the push order.
C7_PyramidShapeAndOrder ==
    (bpc = "done" /\ bret.some) =>
        LET src == SourceImage(breq)
            last == Min(Len(ctx.scale_weights), DownCount(src))
        IN /\ Len(bret.v.scale) = last + 1
           /\ \A i \in 0..last : bret.v.scale[i + 1] = ConvertLevel(DownN(src, i))
           /\ Len(scales) = last + 1
           /\ \A j \in 1..(last + 1) :
                 /\ scales[j] = ConvertLevel(DownN(src, last + 1 - j))
                 /\ bret.v.scale[last + 2 - j] = scales[j]

C7_Witness ==
    /\ bpc = "done"
    /\ bret.some
    /\ Len(bret.v.scale) = 2
    /\ DownCount(SourceImage(breq)) < Len(ctx.scale_weights)
    /\ bret.v.scale[1].chan[1].width > bret.v.scale[2].chan[1].width

C9_ScheduleIndependence ==
    /\ bpc \in {"running", "done"} =>
          LET seq == MakeScalesSeq(Len(ctx.scale_weights), SourceImage(breq))
          IN /\ scales = <<>> \/ (Len(scales) <= Len(seq) /\ scales = SubSeq(seq, 1, Len(scales)))
             /\ bret.some => bret = CreateImageSeq(ctx, SourceImage(breq))
    /\ cmp.pc = "done" =>
          Ok(cmp.ret.v) = CompareSeq(ctx, images[cmp.o].v, images[cmp.m].v)
    /\ cmp.pc = "panicked" =>
          CompareSeq(ctx, images[cmp.o].v, images[cmp.m].v) = Panicked

\* A schedule no same-thread execution takes: the deeper level is pushed before
\* the conversion of the level above it has started.
C9_Witness ==
    /\ bpc = "running"
    /\ Len(frames) = 2
    /\ frames[2].pushed
    /\ frames[1].conv = "start"

\* C10: no step of a compare call changes an image or the context.
C10_CompareLeavesInputsUnchanged ==
    [][(cmp.pc # "idle" \/ cmp'.pc # "idle") => (images' = images /\ ctx' = ctx)]_vars

C10_Witness ==
    /\ cmp.pc = "done"
    /\ cmp.o # cmp.m
    /\ Len(cmp.res) = 2
    /\ images[cmp.o] # images[cmp.m]

\* A dissimilarity that is a finite number >= 0.
FiniteNonNegative(d) == d = RecipEpsilon \/ (d.k = "fin" /\ d.v >= 0)

\* C11: with non-negative weights, every per-scale score compare computes is at
\* most 1 and the dissimilarity it returns is a finite number >= 0; a weighted
\* SSIM that is zero, negative or undefined gives 1 / EPSILON - 1, never an
\* infinity or a NaN.
C11_DissimilarityFiniteNonNegative ==
    (cmp.pc = "done" /\ \A i \in 1..Len(ctx.scale_weights) : ctx.scale_weights[i] >= 0) =>
        /\ \A n \in 1..Len(cmp.res) : Scores[n] <= SsimOne
        /\ FiniteNonNegative(cmp.ret.v.dssim)
        /\ ~(WeightedSsim(SsimSum([n \in 1..Len(cmp.res) |-> cmp.res[n].v.v]),
                           WeightSum([n \in 1..Len(cmp.res) |-> cmp.res[n].v.v])).k = "fin"
              /\ WeightedSsim(SsimSum([n \in 1..Len(cmp.res) |-> cmp.res[n].v.v]),
                              WeightSum([n \in 1..Len(cmp.res) |-> cmp.res[n].v.v])).v > 0)
              => cmp.ret.v.dssim = RecipEpsilon

\* Two scales compared with weights that sum to 0: the weighted SSIM is 0/0.
C11_Witness ==
    /\ cmp.pc = "done"
    /\ Len(cmp.res) = 2
    /\ ctx.scale_weights = <<0, 0>>
    /\ cmp.o # cmp.m
    /\ cmp.ret.v.dssim = RecipEpsilon

\* The strided request with padding pad in place of its own, and the packed
\* bitmap that holds the same visible pixels.
WithPadding(req, pad) == [req EXCEPT !.pat = pad]
PackedRequest(req) == Req("rgba", 1, req.width * req.height, req.width, req.height)

\* The image is what create_image returns, with the context as it is, from a
\* strided source of some padding.
FromStrided(image, req) ==
    /\ req \in SubRequests
    /\ Len(image.v.scale[1].chan) = 3
    /\ image.v.scale[1].chan[1].width = req.width
    /\ image.v.scale[1].chan[1].height = req.height
    /\ \E pad \in PadChoices : image = CreateImageSeq(ctx, SourceImage(WithPadding(req, pad)))

\* C12: a strided source (stride > width) gives the preprocessed image that
\* every source with the same visible pixels gives, whatever the padding holds
\* and also when there is none; comparing two images made from strided sources
\* returns what comparing the images of the packed sources returns, and a
\* self-comparison returns 0 when the consumed weights have a non-zero sum.
C12_PaddingNeverRead ==
    /\ (bpc = "done" /\ breq.op = "sub") =>
          /\ \A pad \in PadChoices :
                bret = CreateImageSeq(ctx, SourceImage(WithPadding(breq, pad)))
          /\ bret = CreateImageSeq(ctx, SourceImage(PackedRequest(breq)))
    /\ cmp.pc = "done" =>
          \A r1, r2 \in SubRequests :
              (FromStrided(images[cmp.o], r1) /\ FromStrided(images[cmp.m], r2)) =>
                  /\ Ok(cmp.ret.v) =
                        CompareSeq(ctx, CreateImageSeq(ctx, SourceImage(PackedRequest(r1))).v,
                                   CreateImageSeq(ctx, SourceImage(PackedRequest(r2))).v)
                  /\ (r1.width = r2.width /\ ConsumedWeightSum # 0) =>
                        cmp.ret.v.dssim = Fin(0)

\* A second image has been created from a strided source with poisoned
\* padding, large enough to be downsampled, the first image holding the same
\* visible pixels.
C12_Witness ==
    /\ bpc = "done"
    /\ breq.op = "sub"
    /\ breq.pat = 2
    /\ SourceImage(breq).stride > SourceImage(breq).width
    /\ \E i \in 1..Len(SourceImage(breq).buf) : SourceImage(breq).buf[i] = PadPixel(2)
    /\ bret.some
    /\ Len(bret.v.scale) = 2
    /\ images["img1"] = bret

\* C13: in every activation of make_scales_recursive both tasks start with a
\* handle of their own to the same unmodified image; the conversion task holds
\* its handle exactly until to_lab has returned, so before any channel is
\* preprocessed, and the downsample task exactly until its downsample step is
\* over, so before the recursive activation exists; an intermediate image is
\* freed exactly when both handles are dropped, no task that has yet to read an
\* image finds it freed, and the caller's borrowed source is never freed.
C13_BufferOwnership ==
    bpc = "running" =>
        \A i \in 1..Len(frames) :
            LET f == frames[i]
            IN /\ f.image = DownN(SourceImage(breq), i - 1)
               /\ f.handles \subseteq {"conv", "down"}
               /\ "conv" \in f.handles <=> f.conv = "start"
               /\ (\E k \in 1..Len(f.chan) : f.chan[k].some) => "conv" \notin f.handles
               /\ "down" \in f.handles <=> f.down = "start"
               /\ i < Len(frames) => "down" \notin f.handles
               /\ f.owned <=> i > 1
               /\ f.freed <=> (f.owned /\ f.handles = {})
               /\ f.conv = "start" => ~f.freed
               /\ (f.down = "start" /\ f.scales_left > 0) => ~f.freed
               /\ i = 1 => ~f.freed

\* The downsampled image is freed, both its handles dropped, while the level
\* above still holds the caller's source for its conversion.
C13_Witness ==
    /\ bpc = "running"
    /\ Len(frames) = 2
    /\ frames[2].freed
    /\ frames[2].handles = {}
    /\ ~frames[2].pushed
    /\ frames[1].handles = {"conv"}
    /\ ~frames[1].freed

\* The number of levels of the two images of the compare call.
OLevels == Len(images[cmp.o].v.scale)
MLevels == Len(images[cmp.m].v.scale)

\* What the closure of compare gives on scale n (1-based), weight n paired with
\* level n of both images.
PairedResult(n) == ScaleTask(ctx, n - 1, ctx.scale_weights[n], MScale(n), OScale(n))

\* C14: compare evaluates exactly min(weights, levels of the original, levels
\* of the modified image) scales, scale i with weight i and level i of both
\* images; it panics only if one of those scales does, and returns the
\* aggregate of those scales alone, so the levels beyond that count, and a
\* difference between the two level counts, change nothing and raise no error.
C14_ComparesShortestZip ==
    cmp.pc # "idle" =>
        /\ Len(cmp.res) = Min(Len(ctx.scale_weights), Min(OLevels, MLevels))
        /\ \A n \in 1..Len(cmp.res) : cmp.res[n].some => cmp.res[n].v = PairedResult(n)
        /\ cmp.pc = "panicked" => \E n \in 1..Len(cmp.res) : PairedResult(n) = Panicked
        /\ cmp.pc = "done" =>
              /\ \A n \in 1..Len(cmp.res) : PairedResult(n).ok
              /\ cmp.ret.v = Aggregate([n \in 1..Len(cmp.res) |-> PairedResult(n).v])
              /\ Len(cmp.ret.v.maps) <= Len(cmp.res)

\* compare has returned on two images of different level counts, one compared
\* scale, the coarsest level of the original built but not compared.
C14_Witness ==
    /\ cmp.pc = "done"
    /\ OLevels # MLevels
    /\ Len(cmp.res) = 1
    /\ Len(cmp.res) = Len(ctx.scale_weights)
    /\ OLevels = Len(ctx.scale_weights) + 1
    /\ OScale(1).chan[1].width = MScale(1).chan[1].width

====
